---------------------------- MODULE Spec2Model ----------------------------
(***************************************************************************)
(* Model of the parscalar layer of QDP++ (lib/parscalar_specific.cc):      *)
(* the lexicographic Layout, Set::make, NearestNeighborMap::make,          *)
(* Map::make and the Internal message-passing convenience routines.        *)
(*                                                                         *)
(* Arrays (multi1d<int>) are functions over 0..n-1, as in the source.      *)
(* A process of the parallel job is identified by its QMP node number.     *)
(***************************************************************************)
EXTENDS Integers, Sequences, FiniteSets, TLC

\* Number of lattice dimensions (compile-time parameter of the library).
Nd == 2

\* Largest lattice extent per axis of the layouts the make routines are
\* run on.
MaxExtent == 8

\* Largest lattice extent per axis that Layout::create is called with in
\* the life-cycle specification.
MaxCreateExtent == 4

\* Largest number of nodes of the machine QMP runs on.
MaxNodes == 4

\* Largest subgrid volume of the layouts Set::make is run on.
SetMaxVol == 2

\* Largest number of subsets (func.numSubsets()) of a coloring function.
MaxSubsets == 2

\* Largest lattice volume of the layouts Map::make is run on.
MapMaxVol == 4

\* Largest number of message regions and handles QMP hands out in a run.
MaxHandles == 10

\* Compile-time lattice volume of a build with static memory (NO_MEM).
VOLUME == 8

Axes == 0 .. (Nd - 1)

VARIABLES
  isInit,      \* static bool isInit
  status,      \* "running", or "exited" after QDP_error_exit / QMP_error_exit
               \* / exit
  NO_MEM,      \* whether the build defines NO_MEM (fixed for the job)
  last_call,   \* the last life-cycle routine called, its argument and outcome
  qmp_nodes,   \* number of nodes of the machine (fixed for the job)
  layout,      \* Layout::_layout of this process
  shift,       \* NearestNeighborMap shift: its soffsets table
  set_func,    \* the SetFunc handed to Set::make: numSubsets() and operator()
  sets,        \* the Set objects of this process
  map_func,    \* the MapFunc handed to Map::make: func(coord,+1), func(coord,-1)
  maps,        \* maps[n]: the Map object of the process of node n
  map_indexed, \* map_indexed[n]: the <<array, index>> Map::make of node n
               \* read or wrote in srcenodes, destnodes and their counts
  qmp,         \* QMP's message regions and handles, and what was done to them
  request_msg, \* static QMP_msgmem_t request_msg[Nd][2]
  request_mh,  \* static QMP_msghandle_t request_mh[Nd][2]
  mh_both,     \* static QMP_msghandle_t mh_both[Nd]
  pending,     \* the <<dir, isign>> the caller has started and not waited for
  last_op      \* the last Internal routine run and the QMP calls it made

layoutVars == <<isInit, status, NO_MEM, last_call, qmp_nodes, layout>>
nnVars == <<shift>>
setVars == <<set_func, sets>>
mapVars == <<map_func, maps, map_indexed>>
commVars == <<qmp, request_msg, request_mh, mh_both, pending, last_op>>
vars == <<layoutVars, nnVars, setVars, mapVars, commVars>>

-----------------------------------------------------------------------------
(* multi1d helpers *)

\* multi1d<int>::size()
Size(a) == Cardinality(DOMAIN a)

\* A multi1d<int> of size 0 (default constructed).
EmptyArray == [i \in {} |-> 0]

\* The C operators / and % on int: the quotient truncates toward zero and
\* the remainder takes the sign of the dividend.
CDiv(a, b) == IF a >= 0 THEN a \div b ELSE -((-a) \div b)
CRem(a, b) == a - b * CDiv(a, b)

RECURSIVE ProdUpTo(_, _)
\* Product of a[0] .. a[n-1].
ProdUpTo(a, n) == IF n = 0 THEN 1 ELSE a[n - 1] * ProdUpTo(a, n - 1)

Prod(a) == ProdUpTo(a, Size(a))

\* crtesn(ipos, latt_size): decompose a lexicographic index into Cartesian
\* coordinates, axis 0 running fastest.
crtesn(ipos, latt_size) ==
  [i \in DOMAIN latt_size |->
     CRem(CDiv(ipos, ProdUpTo(latt_size, i)), latt_size[i])]

RECURSIVE local_site_from(_, _, _)
\* Horner evaluation from axis mmu upwards:
\* coord[mmu] + latt_size[mmu] * (coord[mmu+1] + ...)
local_site_from(coord, latt_size, mmu) ==
  IF mmu >= Size(latt_size) THEN 0
  ELSE coord[mmu] + latt_size[mmu] * local_site_from(coord, latt_size, mmu + 1)

\* local_site(coord, latt_size): lexicographic index of a coordinate.
local_site(coord, latt_size) == local_site_from(coord, latt_size, 0)

-----------------------------------------------------------------------------
(* Layout accessors, with the layout record L passed explicitly *)

lattSize(L) == L.nrow
vol(L) == L.vol
subgridVol(L) == L.subgrid_vol
subgridLattSize(L) == L.subgrid_nrow
myNodeNumber(L) == L.node_rank
numNodes(L) == L.num_nodes
nodeCoord(L) == L.logical_coord
logicalSize(L) == L.logical_size
primaryNode(L) == L.node_rank = 0

\* Mutant: the coordinate is not reduced modulo the subgrid size.
linearSiteIndex_noMod(L, coord) ==
  local_site(coord, subgridLattSize(L))

\* Layout::linearSiteIndex(const multi1d<int>& coord)
linearSiteIndex(L, coord) ==
  LET tmp_coord == [i \in Axes |-> CRem(coord[i], subgridLattSize(L)[i])]
  IN  local_site(tmp_coord, subgridLattSize(L))

\* Layout::lexicoSiteIndex(int linearsite)
lexicoSiteIndex(linearsite) == linearsite

\* Mutant: the node coordinate is taken modulo instead of divided.
nodeNumber_mod(L, coord) ==
  LET tmp_coord == [i \in Axes |-> CRem(coord[i], subgridLattSize(L)[i])]
  IN  local_site(tmp_coord, logicalSize(L))

\* Layout::nodeNumber(const multi1d<int>& coord)
nodeNumber(L, coord) ==
  LET tmp_coord == [i \in Axes |-> CDiv(coord[i], subgridLattSize(L)[i])]
  IN  local_site(tmp_coord, logicalSize(L))

\* Mutant: the node origin is scaled by the node-grid shape.
siteCoords_wrongBase(L, node, linear) ==
  LET base == crtesn(node, logicalSize(L))
      off  == crtesn(linear, subgridLattSize(L))
  IN  [i \in Axes |-> base[i] * logicalSize(L)[i] + off[i]]

\* Layout::siteCoords(int node, int linear)
siteCoords(L, node, linear) ==
  LET base == crtesn(node, logicalSize(L))
      off  == crtesn(linear, subgridLattSize(L))
  IN  [i \in Axes |-> base[i] * subgridLattSize(L)[i] + off[i]]

-----------------------------------------------------------------------------
(* Layout::create *)

\* The static _layout before Layout::create has run.
NoLayout ==
  [vol |-> 0, nrow |-> EmptyArray, nsubl |-> 0, vol_cb |-> 0,
   cb_nrow |-> EmptyArray, subgrid_vol |-> 0, subgrid_nrow |-> EmptyArray,
   logical_coord |-> EmptyArray, logical_size |-> EmptyArray,
   node_rank |-> 0, num_nodes |-> 0]

\* Lattice sizes of d dimensions handed to Layout::create.
Extents(d) == [0 .. (d - 1) -> 1 .. MaxExtent]

\* Lattice sizes of d dimensions handed to Layout::create in the
\* life-cycle specification.
CreateExtents(d) == [0 .. (d - 1) -> 1 .. MaxCreateExtent]

\* What QMP reports after QMP_layout_grid(nrows) on a machine of n nodes:
\* a logical grid of n nodes that divides the lattice evenly, this node's
\* coordinate in it, the subgrid size, the subgrid volume and the rank.
QMPTopologies(nrows, n) ==
  { [phys_size |-> ls, phys_coord |-> crtesn(r, ls),
     subgrid_size |-> [i \in Axes |-> nrows[i] \div ls[i]],
     subgrid_sites |-> Prod([i \in Axes |-> nrows[i] \div ls[i]]),
     number_of_nodes |-> n, node_number |-> r] :
    <<ls, r>> \in { p \in [Axes -> 1 .. n] \X (0 .. (n - 1)) :
                     /\ Prod(p[1]) = n
                     /\ \A i \in Axes : nrows[i] % p[1][i] = 0 } }

\* What QMP reports when the logical grid of the n nodes does not divide
\* the lattice on some axis: the subgrid size is the truncated quotient.
QMPUnevenTopologies(nrows, n) ==
  { [phys_size |-> ls, phys_coord |-> crtesn(r, ls),
     subgrid_size |-> [i \in Axes |-> nrows[i] \div ls[i]],
     subgrid_sites |-> Prod([i \in Axes |-> nrows[i] \div ls[i]]),
     number_of_nodes |-> n, node_number |-> r] :
    <<ls, r>> \in { p \in [Axes -> 1 .. n] \X (0 .. (n - 1)) :
                     /\ Prod(p[1]) = n
                     /\ \E i \in Axes : nrows[i] % p[1][i] # 0 } }

\* The _layout that Layout::create(nrows) leaves when QMP reports t.
MkLayout(nrows, t) ==
  [vol |-> Prod(nrows), nrow |-> nrows, nsubl |-> 1,
   vol_cb |-> Prod(nrows) \div 1, cb_nrow |-> nrows,
   subgrid_vol |-> t.subgrid_sites,
   subgrid_nrow |-> [i \in Axes |-> t.subgrid_size[i]],
   logical_coord |-> [i \in Axes |-> t.phys_coord[i]],
   logical_size |-> [i \in Axes |-> t.phys_size[i]],
   node_rank |-> t.node_number, num_nodes |-> t.number_of_nodes]

\* Every layout Layout::create can leave on a machine of n nodes.
CreatedLayoutsOn(n) ==
  UNION { { MkLayout(nrows, t) : t \in QMPTopologies(nrows, n) } :
          nrows \in Extents(Nd) }

CreatedLayouts == UNION { CreatedLayoutsOn(n) : n \in 1 .. MaxNodes }

\* The layout of the process of rank n in the same job.
LayoutOn(L, n) ==
  [L EXCEPT !.node_rank = n, !.logical_coord = crtesn(n, L.logical_size)]

\* All global coordinates of the lattice.
Grid(L) == { crtesn(s, lattSize(L)) : s \in 0 .. (vol(L) - 1) }

Nodes(L) == 0 .. (numNodes(L) - 1)
LocalSites(L) == 0 .. (subgridVol(L) - 1)

-----------------------------------------------------------------------------
(* Machine on/off and layout creation *)

\* A record of a life-cycle call: the routine, the lattice size handed to it
\* (create only), isInit when it was called, the error it exited with
\* ("none" when it returned or exited without error) and whether it asked
\* QMP for the topology.
Call(fn, nrows, was_init, error, queried) ==
  [fn |-> fn, nrows |-> nrows, was_init |-> was_init, error |-> error,
   queried |-> queried]

NoCall == Call("none", EmptyArray, FALSE, "none", FALSE)

\* Mutant: isInit is set before QMP_init_msg_passing's status is looked at.
InitializeSetsFlag_early(was_init, qmp_ok) == ~was_init

\* Whether QDP_initialize reaches isInit = true.
InitializeSetsFlag(was_init, qmp_ok) == ~was_init /\ qmp_ok

\* void QDP_initialize(int *argc, char ***argv)
QDP_initialize ==
  /\ status = "running"
  /\ \E qmp_ok \in BOOLEAN :
       /\ isInit' = IF InitializeSetsFlag(isInit, qmp_ok) THEN TRUE ELSE isInit
       /\ IF isInit
            THEN /\ status' = "exited"
                 /\ last_call' = Call("QDP_initialize", EmptyArray, isInit,
                                      "QDP already inited", FALSE)
            ELSE IF ~qmp_ok
              THEN /\ status' = "exited"
                   /\ last_call' = Call("QDP_initialize", EmptyArray, isInit,
                                        "QDP_initialize failed", FALSE)
              ELSE /\ UNCHANGED status
                   /\ last_call' = Call("QDP_initialize", EmptyArray, isInit,
                                        "none", FALSE)
  /\ UNCHANGED <<NO_MEM, qmp_nodes, layout>>
  /\ UNCHANGED <<nnVars, setVars, mapVars, commVars>>

\* bool QDP_isInitialized()
QDP_isInitialized == isInit

\* void QDP_finalize()
QDP_finalize ==
  /\ status = "running"
  /\ IF ~QDP_isInitialized
       THEN /\ status' = "exited"
            /\ UNCHANGED isInit
            /\ last_call' = Call("QDP_finalize", EmptyArray, isInit,
                                 "QDP is not inited", FALSE)
       ELSE /\ isInit' = FALSE
            /\ UNCHANGED status
            /\ last_call' = Call("QDP_finalize", EmptyArray, isInit,
                                 "none", FALSE)
  /\ UNCHANGED <<NO_MEM, qmp_nodes, layout>>
  /\ UNCHANGED <<nnVars, setVars, mapVars, commVars>>

\* void QDP_abort(int status): QDP_finalize(), then exit(status)
QDP_abort ==
  /\ status = "running"
  /\ status' = "exited"
  /\ IF ~QDP_isInitialized
       THEN /\ UNCHANGED isInit
            /\ last_call' = Call("QDP_abort", EmptyArray, isInit,
                                 "QDP is not inited", FALSE)
       ELSE /\ isInit' = FALSE
            /\ last_call' = Call("QDP_abort", EmptyArray, isInit,
                                 "none", FALSE)
  /\ UNCHANGED <<NO_MEM, qmp_nodes, layout>>
  /\ UNCHANGED <<nnVars, setVars, mapVars, commVars>>

\* Mutant: the lattice volume is never compared with VOLUME.
CreateError_noVolumeCheck(nrows) ==
  IF ~QDP_isInitialized THEN "QDP is not initialized"
  ELSE IF Size(nrows) # Nd THEN "dimension of lattice size"
  ELSE "none"

\* The error Layout::create(nrows) exits with before it calls
\* QMP_layout_grid, "none" when it gets that far.
CreateError(nrows) ==
  IF ~QDP_isInitialized THEN "QDP is not initialized"
  ELSE IF Size(nrows) # Nd THEN "dimension of lattice size"
  ELSE IF NO_MEM /\ Prod(nrows) > VOLUME THEN "lattice size greater than VOLUME"
  ELSE "none"

\* void Layout::create(const multi1d<int>& nrows)
create ==
  /\ status = "running"
  /\ \E nrows \in CreateExtents(Nd) \cup CreateExtents(Nd - 1) :
       LET error == CreateError(nrows)
       IN  /\ last_call' = Call("create", nrows, isInit, error, error = "none")
           /\ IF error = "none"
                THEN /\ \E t \in QMPTopologies(nrows, qmp_nodes)
                                   \cup QMPUnevenTopologies(nrows, qmp_nodes) :
                          layout' = MkLayout(nrows, t)
                     /\ UNCHANGED status
                ELSE /\ status' = "exited"
                     /\ layout' =
                          IF error = "lattice size greater than VOLUME"
                            THEN [layout EXCEPT !.vol = Prod(nrows),
                                                !.nrow = nrows,
                                                !.cb_nrow = nrows]
                            ELSE layout
  /\ UNCHANGED <<isInit, NO_MEM, qmp_nodes>>
  /\ UNCHANGED <<nnVars, setVars, mapVars, commVars>>


-----------------------------------------------------------------------------
(* NearestNeighborMap *)

\* The soffsets table before make has written any entry.
NoTable == [e \in {} |-> 0]

IdleNN == shift = NoTable

\* Mutant: the +nrow[m] that keeps the dividend non-negative is missing.
NeighborBackward_noWrap(L, coord, m) ==
  [coord EXCEPT ![m] = CRem(coord[m] - 1, lattSize(L)[m])]

\* tmpcoord[m] = (coord[m] - 1 + nrow[m]) % nrow[m]
NeighborBackward(L, coord, m) ==
  [coord EXCEPT ![m] = CRem(coord[m] - 1 + lattSize(L)[m], lattSize(L)[m])]

\* Mutant: the forward neighbor steps two sites.
NeighborForward_two(L, coord, m) ==
  [coord EXCEPT ![m] = CRem(coord[m] + 2, lattSize(L)[m])]

\* tmpcoord[m] = (coord[m] + 1) % nrow[m]
NeighborForward(L, coord, m) ==
  [coord EXCEPT ![m] = CRem(coord[m] + 1, lattSize(L)[m])]

\* Mutant: only the entries whose neighbor is on this node are written.
NNSite_sameNodeOnly(L, coord, ipos) ==
  [e \in { x \in Axes \X {0, 1} \X {ipos} :
             nodeNumber(L, IF x[2] = 0 THEN NeighborBackward(L, coord, x[1])
                                       ELSE NeighborForward(L, coord, x[1]))
               = myNodeNumber(L) } |->
     IF e[2] = 0
       THEN linearSiteIndex(L, NeighborBackward(L, coord, e[1]))
       ELSE linearSiteIndex(L, NeighborForward(L, coord, e[1]))]

\* The entries soffsets(m,0,ipos) and soffsets(m,1,ipos), m in [0, Nd), that
\* the body of the site loop writes for the site at coord.
NNSite(L, coord, ipos) ==
  [e \in Axes \X {0, 1} \X {ipos} |->
     IF e[2] = 0
       THEN linearSiteIndex(L, NeighborBackward(L, coord, e[1]))
       ELSE linearSiteIndex(L, NeighborForward(L, coord, e[1]))]

RECURSIVE NNFill(_, _, _)
\* The loop over all sites of the lattice, from site on: the sites of this
\* node write their entries, a later write replacing an earlier one.
NNFill(L, site, tab) ==
  IF site >= vol(L) THEN tab
  ELSE LET coord == crtesn(site, lattSize(L))
           ipos  == linearSiteIndex(L, coord)
           node  == nodeNumber(L, coord)
       IN  NNFill(L, site + 1,
                  IF myNodeNumber(L) = node
                    THEN NNSite(L, coord, ipos) @@ tab
                    ELSE tab)

\* void NearestNeighborMap::make(): soffsets is resized (its entries are
\* indeterminate until written) and filled; the table holds the entries
\* written, keyed <<m, isign, ipos>>.
NearestNeighborMap_make ==
  /\ status = "running"
  /\ shift' = NNFill(layout, 0, NoTable)
  /\ UNCHANGED <<layoutVars, setVars, mapVars, commVars>>

-----------------------------------------------------------------------------
(* Set::make *)

SetIds == {1, 2}

\* A Subset of sub after sub.resize, before Subset::make.
DefaultSubset ==
  [start |-> 0, end |-> 0, indexrep |-> FALSE, sitetable |-> -1, set_index |-> -1]

\* A Set before make: sub, lat_color and sitetables have size 0.
NoSet == [sub |-> EmptyArray, lat_color |-> EmptyArray, sitetables |-> EmptyArray]

\* No coloring function chosen.
NoSetFunc == [numSubsets |-> 0, color |-> EmptyArray]

IdleSet ==
  /\ set_func = NoSetFunc
  /\ sets = [s \in SetIds |-> NoSet]

\* The coordinates Set::make evaluates func at on the node of layout L.
SetCoord(L, site) ==
  LET coord == crtesn(site, subgridLattSize(L))
  IN  [m \in Axes |-> coord[m] + nodeCoord(L)[m] * subgridLattSize(L)[m]]

\* The coloring functions: numSubsets() in 1..MaxSubsets and, at every
\* coordinate make evaluates, a color that may also be -2, -1 or numSubsets().
SetFuncs(L) ==
  UNION { { [numSubsets |-> k, color |-> f] :
            f \in [{ SetCoord(L, site) : site \in LocalSites(L) } -> (-2) .. k] } :
          k \in 1 .. MaxSubsets }

\* multi1d<int> with x appended
Push(a, x) == [i \in 0 .. Size(a) |-> IF i < Size(a) THEN a[i] ELSE x]

RECURSIVE ColorLoop(_, _, _, _)
\* The loop over all sites determining their color, from site on. It ends
\* at the first site whose node is not this node (QDP_error_exit).
ColorLoop(L, func, site, lat_color) ==
  IF site >= subgridVol(L) THEN [lat_color |-> lat_color, ok |-> TRUE]
  ELSE LET coord  == SetCoord(L, site)
           node   == nodeNumber(L, coord)
           linear == linearSiteIndex(L, coord)
           icolor == func.color[coord]
       IN  IF node # myNodeNumber(L)
             THEN [lat_color |-> lat_color, ok |-> FALSE]
             ELSE ColorLoop(L, func, site + 1,
                            [lat_color EXCEPT ![linear] = icolor])

\* Loop over all sites and see if coloring properly set.
ColoringSet(L, lat_color) ==
  \A site \in LocalSites(L) : lat_color[site] # -1

RECURSIVE SiteTableFrom(_, _, _, _, _)
SiteTableFrom(lat_color, cb, linear, n, sitetable) ==
  IF linear >= n THEN sitetable
  ELSE SiteTableFrom(lat_color, cb, linear + 1, n,
                     IF lat_color[linear] = cb THEN Push(sitetable, linear)
                                               ELSE sitetable)

\* Mutant: the scan of the color table stops one site early.
SiteTable_shortScan(L, lat_color, cb) ==
  SiteTableFrom(lat_color, cb, 0, subgridVol(L) - 1, EmptyArray)

\* The site list of color cb: the inverse of the lattice coloring.
SiteTable(L, lat_color, cb) ==
  SiteTableFrom(lat_color, cb, 0, subgridVol(L), EmptyArray)

\* sub[cb].make(start, end, indexrep, &(sitetables[cb]), cb)
Subset_make(start, end, indexrep, cb) ==
  [start |-> start, end |-> end, indexrep |-> indexrep,
   sitetable |-> cb, set_index |-> cb]

\* The Set that Set::make(func) leaves, and whether it returned (ok) or
\* called QDP_error_exit.
SetMade(L, func) ==
  LET k       == func.numSubsets
      resized == [sub |-> [cb \in 0 .. (k - 1) |-> DefaultSubset],
                  lat_color |-> [site \in LocalSites(L) |-> -1],
                  sitetables |-> [cb \in 0 .. (k - 1) |-> EmptyArray]]
      colored == ColorLoop(L, func, 0, resized.lat_color)
  IN  IF ~colored.ok \/ ~ColoringSet(L, colored.lat_color)
        THEN [set |-> [resized EXCEPT !.lat_color = colored.lat_color],
              ok |-> FALSE]
        ELSE [set |-> [sub |-> [cb \in 0 .. (k - 1) |->
                                  Subset_make(0, -1, TRUE, cb)],
                       lat_color |-> colored.lat_color,
                       sitetables |-> [cb \in 0 .. (k - 1) |->
                                         SiteTable(L, colored.lat_color, cb)]],
              ok |-> TRUE]

\* void Set::make(const SetFunc& func) on the Set object s
Set_make(s) ==
  /\ status = "running"
  /\ LET r == SetMade(layout, set_func)
     IN  /\ sets' = [sets EXCEPT ![s] = r.set]
         /\ status' = IF r.ok THEN status ELSE "exited"
  /\ UNCHANGED <<isInit, NO_MEM, last_call, qmp_nodes, layout, set_func,
                 nnVars, mapVars, commVars>>

-----------------------------------------------------------------------------
(* Map::make *)

\* A Map before make: every array has size 0.
NoMap ==
  [soffsets |-> EmptyArray, srcnode |-> EmptyArray, dstnode |-> EmptyArray,
   srcenodes |-> EmptyArray, destnodes |-> EmptyArray,
   srcenodes_num |-> EmptyArray, destnodes_num |-> EmptyArray]

NoMapFunc == [fwd |-> EmptyArray, bwd |-> EmptyArray]

IdleMap ==
  /\ map_func = NoMapFunc
  /\ maps = EmptyArray
  /\ map_indexed = EmptyArray

\* The permutations of the set S.
Perms(S) == { f \in [S -> S] : \A a, b \in S : f[a] = f[b] => a = b }

\* The inverse of the permutation f of S.
Inverse(f, S) == [y \in S |-> CHOOSE x \in S : f[x] = y]

\* The map functions: func(.,+1) a permutation of the lattice and func(.,-1)
\* its inverse, the same permutation or the map of every site to the origin;
\* or func(.,+1) the map to the origin and func(.,-1) a permutation.
MapFuncs(L) ==
  LET origin == [c \in Grid(L) |-> crtesn(0, lattSize(L))]
  IN  UNION { { [fwd |-> f, bwd |-> Inverse(f, Grid(L))],
                [fwd |-> f, bwd |-> f],
                [fwd |-> f, bwd |-> origin],
                [fwd |-> origin, bwd |-> f] } : f \in Perms(Grid(L)) }

\* Mutant: the source node is computed from the backward neighbor.
MapSrcNode_bwd(L, func, coord) == nodeNumber(L, func.bwd[coord])

\* srcnode[linear] = Layout::nodeNumber(func(coord,+1))
MapSrcNode(L, func, coord) == nodeNumber(L, func.fwd[coord])

\* soffsets[linear] = Layout::linearSiteIndex(func(coord,+1))
MapSrcOffset(L, func, coord) == linearSiteIndex(L, func.fwd[coord])

\* dstnode[linear] = Layout::nodeNumber(func(coord,-1))
MapDstNode(L, func, coord) == nodeNumber(L, func.bwd[coord])

RECURSIVE UniqueFrom(_, _, _)
\* ll[ipos..] entered into d, each value the first time it occurs.
UniqueFrom(ll, ipos, d) ==
  IF ipos >= Size(ll) THEN d
  ELSE UniqueFrom(ll, ipos + 1,
                  IF \E i \in DOMAIN d : d[i] = ll[ipos] THEN d
                  ELSE Push(d, ll[ipos]))

\* uniquify_list(ll): the unique nodes of the list, this node always
\* included.
uniquify_list(L, ll) == UniqueFrom(ll, 0, Push(EmptyArray, myNodeNumber(L)))

RECURSIVE TallyFrom(_, _, _, _, _)
\* The tally loop over the local sites, from linear on: the first entry i
\* of the unique list that equals the site's node is counted (break).
TallyFrom(L, list, unique, linear, num) ==
  IF linear >= subgridVol(L) THEN num
  ELSE LET this_node == list[linear]
           hits == { i \in DOMAIN num : unique[i] = this_node }
           first == CHOOSE i \in hits : \A j \in hits : i <= j
       IN  TallyFrom(L, list, unique, linear + 1,
                     IF hits = {} THEN num
                     ELSE [num EXCEPT ![first] = @ + 1])

\* Mutant: the tally loop starts at the second local site.
Tally_fromSecond(L, list, unique) ==
  TallyFrom(L, list, unique, 1, [i \in DOMAIN unique |-> 0])

\* srcenodes_num / destnodes_num: resized, zeroed and tallied.
Tally(L, list, unique) ==
  TallyFrom(L, list, unique, 0, [i \in DOMAIN unique |-> 0])

\* The Map that Map::make(func) leaves on the node of layout L.
MapMade(L, func) ==
  LET my_node == myNodeNumber(L)
      coord(linear) == siteCoords(L, my_node, linear)
      srcnode == [linear \in LocalSites(L) |-> MapSrcNode(L, func, coord(linear))]
      dstnode == [linear \in LocalSites(L) |-> MapDstNode(L, func, coord(linear))]
      srcenodes == uniquify_list(L, srcnode)
      destnodes == uniquify_list(L, dstnode)
  IN  [soffsets |-> [linear \in LocalSites(L) |->
                       MapSrcOffset(L, func, coord(linear))],
       srcnode |-> srcnode,
       dstnode |-> dstnode,
       srcenodes |-> srcenodes,
       destnodes |-> destnodes,
       srcenodes_num |-> Tally(L, srcnode, srcenodes),
       destnodes_num |-> Tally(L, dstnode, destnodes)]

\* The entries the tally loop indexes for one list: for every local site,
\* unique[i] for i up to the first hit (break) and num[i] at the hit.
TallyIndexed(list, unique, uname, nname) ==
  UNION { LET hits == { i \in DOMAIN unique : unique[i] = list[linear] }
              last == IF hits = {} THEN Size(unique) - 1
                      ELSE CHOOSE i \in hits : \A j \in hits : i <= j
          IN  { <<uname, i>> : i \in 0 .. last }
                \cup (IF hits = {} THEN {} ELSE { <<nname, last>> }) :
          linear \in DOMAIN list }

\* The entries the reporting loop indexes: i runs over
\* [0, destnodes.size()) and all four arrays are read at i.
ReportIndexed(M) ==
  UNION { { <<"srcenodes", i>>, <<"destnodes", i>>,
            <<"srcenodes_num", i>>, <<"destnodes_num", i>> } :
          i \in 0 .. (Size(M.destnodes) - 1) }

\* Every <<array, index>> Map::make(func) indexes in srcenodes, destnodes,
\* srcenodes_num and destnodes_num.
MapIndexed(L, func) ==
  LET M == MapMade(L, func)
  IN  TallyIndexed(M.srcnode, M.srcenodes, "srcenodes", "srcenodes_num")
        \cup TallyIndexed(M.dstnode, M.destnodes, "destnodes", "destnodes_num")
        \cup ReportIndexed(M)

\* The accesses of idx that lie outside the size of the array of M.
OutOfBounds(M, idx) == { a \in idx : a[2] \notin DOMAIN M[a[1]] }

\* void Map::make(const MapFunc& func) on the process of node n; a read
\* outside an array is undefined: the process goes on or is ended.
Map_make(n) ==
  /\ status = "running"
  /\ LET M == MapMade(LayoutOn(layout, n), map_func)
         idx == MapIndexed(LayoutOn(layout, n), map_func)
     IN  /\ maps' = [maps EXCEPT ![n] = M]
         /\ map_indexed' = [map_indexed EXCEPT ![n] = idx]
         /\ status' \in IF OutOfBounds(M, idx) = {} THEN {status}
                         ELSE {status, "exited"}
  /\ UNCHANGED <<isInit, NO_MEM, last_call, qmp_nodes, layout, nnVars,
                 setVars, map_func, commVars>>

-----------------------------------------------------------------------------
(* Internal: message passing convenience routines *)

\* The null QMP_msgmem_t / QMP_msghandle_t: what a failed declare returns
\* and what the static arrays hold before the first sendRecv.
NullHandle == 0

\* QMP before any declare: objs[h] is the region or handle h (its kind and
\* how often it was freed), misuse the waits and frees of a non-null value
\* that is not a live region or handle, calls the QMP calls of the routine
\* that is running.
NoQMP == [objs |-> <<>>, misuse |-> {}, calls |-> <<>>]

NoOp == [op |-> "none", fails |-> {}, calls |-> <<>>]

IdleComm ==
  /\ qmp = NoQMP
  /\ request_msg = [dir \in Axes |-> [k \in {0, 1} |-> NullHandle]]
  /\ request_mh = [dir \in Axes |-> [k \in {0, 1} |-> NullHandle]]
  /\ mh_both = [dir \in Axes |-> NullHandle]
  /\ pending = {}
  /\ last_op = NoOp

Live(m, h) == h \in DOMAIN m.objs /\ m.objs[h].frees = 0

\* QMP_declare_msgmem, QMP_declare_send_relative, ... : call is the QMP
\* function, label the call site; the call fails (returns null) when label
\* is in fails, else it returns a new region or handle.
QMP_declare(m, kind, call, label, fails) ==
  IF label \in fails
    THEN [m |-> [m EXCEPT !.calls = Append(@, call)], h |-> NullHandle]
    ELSE [m |-> [m EXCEPT !.calls = Append(@, call),
                          !.objs = Append(@, [kind |-> kind, frees |-> 0])],
          h |-> Len(m.objs) + 1]

\* QMP_start(mh)
QMP_start(m, h) == [m EXCEPT !.calls = Append(@, "QMP_start")]

\* QMP_wait(mh)
QMP_wait(m, h) ==
  [m EXCEPT !.calls = Append(@, "QMP_wait"),
            !.misuse = IF h = NullHandle \/ Live(m, h) THEN @
                       ELSE @ \cup {<<"QMP_wait", h>>}]

\* QMP_free_msghandle(mh) / QMP_free_msgmem(mm)
QMP_free(m, call, h) ==
  [m EXCEPT !.calls = Append(@, call),
            !.objs = IF h \in DOMAIN @
                       THEN [@ EXCEPT ![h].frees = @ + 1] ELSE @,
            !.misuse = IF h = NullHandle \/ h \in DOMAIN m.objs THEN @
                       ELSE @ \cup {<<call, h>>}]

RECURSIVE QMP_free_all(_, _, _)
\* The free calls of a routine, in order: frees[i] = <<call, handle>>.
QMP_free_all(m, frees, i) ==
  IF i > Len(frees) THEN m
  ELSE QMP_free_all(QMP_free(m, frees[i][1], frees[i][2]), frees, i + 1)

\* QMP_error_exit
QMP_error_exit(m) == [m EXCEPT !.calls = Append(@, "QMP_error_exit")]

\* The call sites that can fail, per routine.
RelativeFails == {"msgmem0", "msgmem1", "send", "recv", "multiple", "start"}
DirectFails == {"msgmem", "handle", "start"}

\* Whether QMP can still hand out n more regions and handles.
Room(n) == Len(qmp.objs) + n <= MaxHandles

Begin == [qmp EXCEPT !.calls = <<>>]

\* void sendRecvWait(void *send_buf, void *recv_buf, int count, int isign, int dir)
sendRecvWait(isign, dir, fails) ==
  /\ status = "running"
  /\ Room(5)
  /\ LET msg0 == QMP_declare(Begin, "msgmem", "QMP_declare_msgmem", "msgmem0", fails)
         msg1 == QMP_declare(msg0.m, "msgmem", "QMP_declare_msgmem", "msgmem1", fails)
         mh_a0 == QMP_declare(msg1.m, "msghandle", "QMP_declare_send_relative", "send", fails)
         mh_a1 == QMP_declare(mh_a0.m, "msghandle", "QMP_declare_receive_relative", "recv", fails)
         mh == QMP_declare(mh_a1.m, "msghandle", "QMP_declare_multiple", "multiple", fails)
         started == QMP_start(mh.m, mh.h)
         waited == QMP_wait(started, mh.h)
         freed == QMP_free_all(waited,
                    << <<"QMP_free_msghandle", mh_a1.h>>,
                       <<"QMP_free_msghandle", mh_a0.h>>,
                       <<"QMP_free_msghandle", mh.h>>,
                       <<"QMP_free_msgmem", msg1.h>>,
                       <<"QMP_free_msgmem", msg0.h>> >>, 1)
     IN  /\ qmp' = freed
         /\ last_op' = [op |-> "sendRecvWait", fails |-> fails, calls |-> freed.calls]
  /\ UNCHANGED <<layoutVars, nnVars, setVars, mapVars,
                 request_msg, request_mh, mh_both, pending>>

\* void sendRecv(void *send_buf, void *recv_buf, int count, int isign0, int dir)
sendRecv(isign0, dir, fails) ==
  /\ status = "running"
  /\ Room(5)
  /\ LET isign == IF isign0 > 0 THEN 1 ELSE -1
         msg0 == QMP_declare(Begin, "msgmem", "QMP_declare_msgmem", "msgmem0", fails)
         msg1 == QMP_declare(msg0.m, "msgmem", "QMP_declare_msgmem", "msgmem1", fails)
         mh1 == QMP_declare(msg1.m, "msghandle", "QMP_declare_send_relative", "send", fails)
         mh0 == QMP_declare(mh1.m, "msghandle", "QMP_declare_receive_relative", "recv", fails)
         both == QMP_declare(mh0.m, "msghandle", "QMP_declare_multiple", "multiple", fails)
         started == QMP_start(both.m, both.h)
         done == IF "start" \in fails THEN QMP_error_exit(started) ELSE started
     IN  /\ request_msg' = [request_msg EXCEPT ![dir] =
                              [k \in {0, 1} |-> IF k = 0 THEN msg0.h ELSE msg1.h]]
         /\ request_mh' = [request_mh EXCEPT ![dir] =
                              [k \in {0, 1} |-> IF k = 0 THEN mh0.h ELSE mh1.h]]
         /\ mh_both' = [mh_both EXCEPT ![dir] = both.h]
         /\ qmp' = done
         /\ status' = IF "start" \in fails THEN "exited" ELSE status
         /\ pending' = IF "start" \in fails THEN pending
                        ELSE pending \cup {<<dir, isign>>}
         /\ last_op' = [op |-> "sendRecv", fails |-> fails, calls |-> done.calls]
  /\ UNCHANGED <<isInit, NO_MEM, last_call, qmp_nodes, layout, nnVars,
                 setVars, mapVars>>

\* Mutant: request_mh[dir][1] is freed twice and request_mh[dir][0] never.
WaitFrees_sameHandleTwice(dir) ==
  << <<"QMP_free_msghandle", request_mh[dir][1]>>,
     <<"QMP_free_msghandle", request_mh[dir][1]>>,
     <<"QMP_free_msghandle", mh_both[dir]>>,
     <<"QMP_free_msgmem", request_msg[dir][1]>>,
     <<"QMP_free_msgmem", request_msg[dir][0]>> >>

\* The free calls of wait(dir), in order.
WaitFrees(dir) ==
  << <<"QMP_free_msghandle", request_mh[dir][1]>>,
     <<"QMP_free_msghandle", request_mh[dir][0]>>,
     <<"QMP_free_msghandle", mh_both[dir]>>,
     <<"QMP_free_msgmem", request_msg[dir][1]>>,
     <<"QMP_free_msgmem", request_msg[dir][0]>> >>

\* void wait(int dir)
wait(dir) ==
  /\ status = "running"
  /\ LET waited == QMP_wait(Begin, mh_both[dir])
         freed == QMP_free_all(waited, WaitFrees(dir), 1)
     IN  /\ qmp' = freed
         /\ last_op' = [op |-> "wait", fails |-> {}, calls |-> freed.calls]
  /\ pending' \in IF \E p \in pending : p[1] = dir
                    THEN { pending \ {p} : p \in { q \in pending : q[1] = dir } }
                    ELSE {pending}
  /\ UNCHANGED <<layoutVars, nnVars, setVars, mapVars,
                 request_msg, request_mh, mh_both>>

\* The body shared by sendToWait and recvFromWait, which differ in the
\* declare call (QMP_declare_send_to / QMP_declare_receive_from).
DirectWait(op, declare, fails) ==
  /\ status = "running"
  /\ Room(2)
  /\ LET msg == QMP_declare(Begin, "msgmem", "QMP_declare_msgmem", "msgmem", fails)
         mh == QMP_declare(msg.m, "msghandle", declare, "handle", fails)
         started == QMP_start(mh.m, mh.h)
         done == IF "start" \in fails THEN QMP_error_exit(started)
                 ELSE QMP_free_all(QMP_wait(started, mh.h),
                        << <<"QMP_free_msghandle", mh.h>>,
                           <<"QMP_free_msgmem", msg.h>> >>, 1)
     IN  /\ qmp' = done
         /\ status' = IF "start" \in fails THEN "exited" ELSE status
         /\ last_op' = [op |-> op, fails |-> fails, calls |-> done.calls]
  /\ UNCHANGED <<isInit, NO_MEM, last_call, qmp_nodes, layout, nnVars,
                 setVars, mapVars, request_msg, request_mh, mh_both, pending>>

\* void sendToWait(void *send_buf, int dest_node, int count)
sendToWait(dest_node, fails) ==
  DirectWait("sendToWait", "QMP_declare_send_to", fails)

\* void recvFromWait(void *recv_buf, int srce_node, int count)
recvFromWait(srce_node, fails) ==
  DirectWait("recvFromWait", "QMP_declare_receive_from", fails)

-----------------------------------------------------------------------------
(* Specification of the machine life cycle and of Layout::create *)

Init ==
  /\ isInit = FALSE
  /\ status = "running"
  /\ NO_MEM \in BOOLEAN
  /\ last_call = NoCall
  /\ qmp_nodes \in 1 .. MaxNodes
  /\ layout = NoLayout
  /\ IdleNN
  /\ IdleSet
  /\ IdleMap
  /\ IdleComm

Next ==
  \/ QDP_initialize
  \/ QDP_finalize
  \/ QDP_abort
  \/ create

Spec == Init /\ [][Next]_vars

\* Layout::create has run to its end at least once.
Completed == layout.num_nodes > 0

\* The node grid divides the lattice on every axis.
DividesEvenly(L) == \A k \in Axes : lattSize(L)[k] % logicalSize(L)[k] = 0

Created == status = "running" /\ Completed /\ DividesEvenly(layout)

\* C1: for every layout Layout::create leaves (the node grid divides the
\* lattice on every axis) and every global coordinate c of the lattice,
\* siteCoords(nodeNumber(c), linearSiteIndex(c)) = c.
C1_SiteCoordsInvertsNodeAndIndex ==
  Created =>
    \A c \in Grid(layout) :
      siteCoords(layout, nodeNumber(layout, c), linearSiteIndex(layout, c)) = c

\* A layout of several nodes, each with a subgrid of more than one site on
\* both axes, where the round trip of a site of the last node is taken.
C1_Witness ==
  /\ Created
  /\ numNodes(layout) > 1
  /\ \A i \in Axes : subgridLattSize(layout)[i] > 1
  /\ \E c \in Grid(layout) :
       /\ nodeNumber(layout, c) = numNodes(layout) - 1
       /\ linearSiteIndex(layout, c) = subgridVol(layout) - 1
       /\ siteCoords(layout, numNodes(layout) - 1, subgridVol(layout) - 1) = c

\* The block of the lattice owned by node n.
Block(L, n) ==
  { c \in Grid(L) :
      \A k \in Axes :
        /\ crtesn(n, logicalSize(L))[k] * subgridLattSize(L)[k] <= c[k]
        /\ c[k] < (crtesn(n, logicalSize(L))[k] + 1) * subgridLattSize(L)[k] }

\* The sites siteCoords enumerates on node n.
Image(L, n) == { siteCoords(L, n, i) : i \in LocalSites(L) }

\* C2: on every node n, i -> siteCoords(n, i) is injective on
\* [0, subgridVol) and its image is exactly the block of n; every coordinate
\* of the block has nodeNumber n and a linearSiteIndex in [0, subgridVol);
\* the blocks of all nodes cover the lattice and are pairwise disjoint.
C2_BlocksPartitionGrid ==
  Created =>
    /\ \A n \in Nodes(layout) :
         /\ \A i, j \in LocalSites(layout) :
              siteCoords(layout, n, i) = siteCoords(layout, n, j) => i = j
         /\ Image(layout, n) = Block(layout, n)
         /\ \A c \in Block(layout, n) :
              /\ nodeNumber(layout, c) = n
              /\ linearSiteIndex(layout, c) \in LocalSites(layout)
    /\ UNION { Image(layout, n) : n \in Nodes(layout) } = Grid(layout)
    /\ \A n, m \in Nodes(layout) :
         n # m => Image(layout, n) \cap Image(layout, m) = {}

\* A layout of four nodes in a 2 x 2 grid with subgrids of at least two
\* sites per axis.
C2_Witness ==
  /\ Created
  /\ \A i \in Axes : logicalSize(layout)[i] = 2
  /\ \A i \in Axes : subgridLattSize(layout)[i] >= 2
  /\ Cardinality(Image(layout, 3)) = subgridVol(layout)

\* C11: once Layout::create has completed, no later step changes any field
\* of the layout, a further Layout::create with a different lattice size,
\* QDP_finalize and QDP_initialize included.
C11_LayoutNeverChanges == [][Completed => layout' = layout]_vars

\* C12 as stated: Layout::create exits with an error, without asking QMP
\* for the topology, when QDP is not initialized, when nrows has not Nd
\* entries, or when the product of nrows exceeds VOLUME.
C12_VolumeOverCapacityIsFatal ==
  (/\ last_call.fn = "create"
   /\ \/ ~last_call.was_init
      \/ Size(last_call.nrows) # Nd
      \/ Prod(last_call.nrows) > VOLUME)
  => /\ status = "exited"
     /\ last_call.error # "none"
     /\ ~last_call.queried

\* C12: Layout::create exits with an error, without asking QMP for the
\* topology, when QDP is not initialized, when nrows has not Nd entries, or
\* when the build defines NO_MEM and the product of nrows exceeds VOLUME.
C12_EarlyErrorsSkipTopologyQuery ==
  (/\ last_call.fn = "create"
   /\ \/ ~last_call.was_init
      \/ Size(last_call.nrows) # Nd
      \/ NO_MEM /\ Prod(last_call.nrows) > VOLUME)
  => /\ status = "exited"
     /\ last_call.error # "none"
     /\ ~last_call.queried

\* A NO_MEM build where an initialized QDP was handed a lattice of Nd
\* dimensions and more than VOLUME sites.
C12_Witness ==
  /\ NO_MEM
  /\ last_call.fn = "create"
  /\ last_call.was_init
  /\ Size(last_call.nrows) = Nd
  /\ Prod(last_call.nrows) > VOLUME
  /\ status = "exited"
  /\ ~last_call.queried

\* C13: Layout::create exits with an error when the node grid QMP reports
\* does not divide the lattice evenly, so every layout of a running process
\* has subgrid_nrow[k] * logical_size[k] = nrow[k] on every axis and
\* subgrid_vol equal to the product of subgrid_nrow.
C13_UnevenTopologyIsFatal ==
  (status = "running" /\ Completed) =>
    /\ \A k \in Axes :
         subgridLattSize(layout)[k] * logicalSize(layout)[k]
           = lattSize(layout)[k]
    /\ subgridVol(layout) = Prod(subgridLattSize(layout))

\* What C16 says of one step, told by the call the step made.
C16_Step ==
  /\ last_call'.fn = "QDP_initialize" =>
       /\ isInit => /\ status' = "exited"
                    /\ last_call'.error # "none"
                    /\ isInit'
       /\ last_call'.error = "QDP_initialize failed" =>
            (status' = "exited" /\ ~isInit')
       /\ last_call'.error = "none" => (status' = "running" /\ isInit')
  /\ last_call'.fn = "QDP_finalize" =>
       /\ ~isInit => (status' = "exited" /\ last_call'.error # "none")
       /\ isInit => (status' = "running" /\ ~isInit')
  /\ last_call'.fn = "QDP_abort" => (status' = "exited" /\ ~isInit')
  /\ last_call'.fn \notin {"QDP_initialize", "QDP_finalize", "QDP_abort"} =>
       isInit' = isInit

\* C16: QDP_initialize on an initialized QDP exits with an error and leaves
\* the flag set; QDP_finalize on a QDP that is not initialized exits with
\* an error; the flag is set only by a QDP_initialize whose transport
\* initialisation succeeded, cleared only by QDP_finalize (QDP_abort calls
\* it), and no other step changes it.
C16_InitFlagLifeCycle == [][C16_Step]_vars

\* QDP_initialize was called on an initialized QDP.
C16_Witness ==
  /\ last_call.fn = "QDP_initialize"
  /\ last_call.was_init
  /\ status = "exited"
  /\ QDP_isInitialized

-----------------------------------------------------------------------------
(* Specification of NearestNeighborMap::make on a created layout *)

InitNN ==
  /\ isInit = TRUE
  /\ status = "running"
  /\ NO_MEM = FALSE
  /\ layout \in CreatedLayouts
  /\ last_call = Call("create", lattSize(layout), TRUE, "none", TRUE)
  /\ qmp_nodes = numNodes(layout)
  /\ IdleNN
  /\ IdleSet
  /\ IdleMap
  /\ IdleComm

NextNN == NearestNeighborMap_make

SpecNN == InitNN /\ [][NextNN]_vars

ShiftMade == shift # NoTable

\* Every <<m, isign, i>> of the table, i a local index.
ShiftEntries == Axes \X {0, 1} \X LocalSites(layout)

\* C3: after NearestNeighborMap::make, for every axis m and local index i,
\* soffsets(m,0,soffsets(m,1,i)) = i and soffsets(m,1,soffsets(m,0,i)) = i.
C3_ForwardBackwardInverse ==
  ShiftMade =>
    \A m \in Axes : \A i \in LocalSites(layout) :
      /\ ShiftEntries \subseteq DOMAIN shift
      /\ shift[<<m, 1, i>>] \in LocalSites(layout)
      /\ shift[<<m, 0, i>>] \in LocalSites(layout)
      /\ shift[<<m, 0, shift[<<m, 1, i>>]>>] = i
      /\ shift[<<m, 1, shift[<<m, 0, i>>]>>] = i

\* The table of a node of a several-node layout whose subgrid has at least
\* three sites along axis 0, where forward and backward differ.
C3_Witness ==
  /\ ShiftMade
  /\ numNodes(layout) > 1
  /\ subgridLattSize(layout)[0] >= 3
  /\ shift[<<0, 1, 0>>] # shift[<<0, 0, 0>>]
  /\ shift[<<0, 0, shift[<<0, 1, 0>>]>>] = 0

\* The periodic neighbor, in the lattice, of local site i of this node.
NeighborOf(m, d, i) ==
  LET coord == siteCoords(layout, myNodeNumber(layout), i)
  IN  IF d = 0 THEN [coord EXCEPT ![m] = (coord[m] - 1) % lattSize(layout)[m]]
               ELSE [coord EXCEPT ![m] = (coord[m] + 1) % lattSize(layout)[m]]

\* The entries whose periodic neighbor is owned by another node.
CrossNodeEntries ==
  { e \in ShiftEntries :
      nodeNumber(layout, NeighborOf(e[1], e[2], e[3])) # myNodeNumber(layout) }

\* C7 as stated: make leaves unfilled every entry soffsets(m,dir,i) whose
\* periodic neighbor is owned by a different node.
C7_CrossNodeEntriesUnfilled ==
  ShiftMade => \A e \in CrossNodeEntries : e \notin DOMAIN shift

\* C7 amended: make fills soffsets(m,dir,i) for every local site, axis and
\* direction, also when the periodic neighbor is owned by a different node;
\* the entry is the linear index the neighbor has on the node that owns it.
C7_AllEntriesFilled ==
  ShiftMade =>
    /\ DOMAIN shift = ShiftEntries
    /\ \A e \in ShiftEntries :
         siteCoords(layout, nodeNumber(layout, NeighborOf(e[1], e[2], e[3])),
                    shift[e])
           = NeighborOf(e[1], e[2], e[3])

\* Lattice [8,1] on two nodes: on node 0 the backward entry of local index
\* 0, whose neighbor is global coordinate 7 on node 1, holds 3.
C7_Witness ==
  /\ ShiftMade
  /\ lattSize(layout) = [i \in Axes |-> IF i = 0 THEN 8 ELSE 1]
  /\ numNodes(layout) = 2
  /\ myNodeNumber(layout) = 0
  /\ <<0, 0, 0>> \in CrossNodeEntries
  /\ nodeNumber(layout, NeighborOf(0, 0, 0)) = 1
  /\ shift[<<0, 0, 0>>] = 3

\* C14: after NearestNeighborMap::make on a layout of one node, for every
\* local site with global coordinate c and every axis m, soffsets(m,1,.) is
\* the linear index of c with c[m] replaced by (c[m] + 1) mod nrow[m],
\* soffsets(m,0,.) that of c with c[m] replaced by
\* (c[m] - 1 + nrow[m]) mod nrow[m], and both lie in [0, subgridVol).
C14_SingleNodeNeighbors ==
  (ShiftMade /\ numNodes(layout) = 1) =>
    \A m \in Axes : \A i \in LocalSites(layout) :
      LET c == siteCoords(layout, myNodeNumber(layout), i)
          nrow == lattSize(layout)
          fwd == [c EXCEPT ![m] = (c[m] + 1) % nrow[m]]
          bwd == [c EXCEPT ![m] = (c[m] - 1 + nrow[m]) % nrow[m]]
      IN  /\ shift[<<m, 1, i>>] = linearSiteIndex(layout, fwd)
          /\ shift[<<m, 0, i>>] = linearSiteIndex(layout, bwd)
          /\ siteCoords(layout, myNodeNumber(layout), shift[<<m, 1, i>>]) = fwd
          /\ siteCoords(layout, myNodeNumber(layout), shift[<<m, 0, i>>]) = bwd
          /\ shift[<<m, 1, i>>] \in LocalSites(layout)
          /\ shift[<<m, 0, i>>] \in LocalSites(layout)

\* Lattice [4,4] on one node: along axis 0 the forward neighbor of (0,0) is
\* (1,0), linear index 1, and the backward neighbor is (3,0), linear index 3.
C14_Witness ==
  /\ ShiftMade
  /\ numNodes(layout) = 1
  /\ lattSize(layout) = [k \in Axes |-> 4]
  /\ siteCoords(layout, 0, 0) = [k \in Axes |-> 0]
  /\ shift[<<0, 1, 0>>] = 1
  /\ siteCoords(layout, 0, 1) = [k \in Axes |-> IF k = 0 THEN 1 ELSE 0]
  /\ shift[<<0, 0, 0>>] = 3
  /\ siteCoords(layout, 0, 3) = [k \in Axes |-> IF k = 0 THEN 3 ELSE 0]

-----------------------------------------------------------------------------
(* Specification of Set::make on a created layout *)

InitSet ==
  /\ isInit = TRUE
  /\ status = "running"
  /\ NO_MEM = FALSE
  /\ layout \in { L \in CreatedLayouts : subgridVol(L) <= SetMaxVol }
  /\ last_call = Call("create", lattSize(layout), TRUE, "none", TRUE)
  /\ qmp_nodes = numNodes(layout)
  /\ IdleNN
  /\ set_func \in SetFuncs(layout)
  /\ sets = [s \in SetIds |-> NoSet]
  /\ IdleMap
  /\ IdleComm

NextSet == \E s \in SetIds : Set_make(s)

SpecSet == InitSet /\ [][NextSet]_vars

\* Set::make has been called on the Set object s.
SetMakeCalled(s) == Size(sets[s].sub) > 0

\* Set::make has been called on s and has returned.
SetBuilt(s) == SetMakeCalled(s) /\ status = "running"

Colors == 0 .. (set_func.numSubsets - 1)

\* The color func gives the local site of linear index i.
ColorOf(i) == set_func.color[siteCoords(layout, myNodeNumber(layout), i)]

\* func assigns every local site a color in [0, numSubsets()).
TotalColoring == \A i \in LocalSites(layout) : ColorOf(i) \in Colors

\* How many times linear index i occurs in the array t.
Occurrences(t, i) == Cardinality({ j \in DOMAIN t : t[j] = i })

\* C4: for a coloring with every color in [0, k), after Set::make every
\* local linear index occurs exactly once in the site table of its color
\* and in no other site table (the k tables are disjoint and their union
\* is [0, subgridVol)); two builds with the same function and layout give
\* identical site tables.
C4_SiteTablesPartitionLocalSites ==
  TotalColoring =>
    /\ \A s \in SetIds :
         SetBuilt(s) =>
           /\ DOMAIN sets[s].sitetables = Colors
           /\ \A cb \in Colors : \A j \in DOMAIN sets[s].sitetables[cb] :
                sets[s].sitetables[cb][j] \in LocalSites(layout)
           /\ \A i \in LocalSites(layout) : \A cb \in Colors :
                Occurrences(sets[s].sitetables[cb], i)
                  = IF cb = ColorOf(i) THEN 1 ELSE 0
    /\ (SetBuilt(1) /\ SetBuilt(2)) => sets[1].sitetables = sets[2].sitetables

\* Both Sets built from a coloring that uses two colors on a subgrid of
\* two sites on a node other than node 0, the second site having color 0.
C4_Witness ==
  /\ TotalColoring
  /\ SetBuilt(1) /\ SetBuilt(2)
  /\ subgridVol(layout) = 2
  /\ myNodeNumber(layout) > 0
  /\ sets[1].sitetables[0] = [j \in {0} |-> 1]
  /\ sets[2].sitetables[1] = [j \in {0} |-> 0]

\* C8 as stated: Set::make ends with an error whenever func gives a local
\* site a color outside [0, k); it returns only if every entry of the color
\* table is in [0, k).
C8_ColorOutOfRangeIsFatal ==
  \A s \in SetIds :
    SetBuilt(s) => \A i \in LocalSites(layout) : sets[s].lat_color[i] \in Colors

-----------------------------------------------------------------------------
(* Specification of Map::make on all the nodes of a created layout *)

InitMap ==
  /\ isInit = TRUE
  /\ status = "running"
  /\ NO_MEM = FALSE
  /\ layout \in { L \in CreatedLayouts :
                    vol(L) <= MapMaxVol /\ myNodeNumber(L) = 0 }
  /\ last_call = Call("create", lattSize(layout), TRUE, "none", TRUE)
  /\ qmp_nodes = numNodes(layout)
  /\ IdleNN
  /\ IdleSet
  /\ map_func \in MapFuncs(layout)
  /\ maps = [n \in Nodes(layout) |-> NoMap]
  /\ map_indexed = [n \in Nodes(layout) |-> {}]
  /\ IdleComm

NextMap == \E n \in Nodes(layout) : Map_make(n)

SpecMap == InitMap /\ [][NextMap]_vars

\* Map::make has run on node n.
MapBuilt(n) == maps[n] # NoMap

AllMapsBuilt == \A n \in Nodes(layout) : MapBuilt(n)

\* func(.,+1) and func(.,-1) are mutually inverse permutations of the lattice.
InversePair ==
  /\ \A c \in Grid(layout) : map_func.bwd[map_func.fwd[c]] = c
  /\ \A c \in Grid(layout) : map_func.fwd[map_func.bwd[c]] = c

\* The local sites of node a whose source node is b.
SitesWithSrc(a, b) == { i \in LocalSites(layout) : maps[a].srcnode[i] = b }

\* The local sites of node b whose destination node is a.
SitesWithDst(b, a) == { j \in LocalSites(layout) : maps[b].dstnode[j] = a }

\* C5: if func(.,+1) and func(.,-1) are mutually inverse permutations, then
\* with Map::make run on every node: every (node, local index) is referenced
\* by exactly one (srcnode[i], soffsets[i]) over all nodes and local sites;
\* the site soffsets[i] of node srcnode[i] has dstnode equal to the
\* referencing node; and for every ordered pair (A,B) the number of sites
\* of A with srcnode B equals the number of sites of B with dstnode A.
C5_MapsFormGlobalPermutation ==
  (InversePair /\ AllMapsBuilt) =>
    /\ \A n2 \in Nodes(layout) : \A j \in LocalSites(layout) :
         Cardinality({ p \in Nodes(layout) \X LocalSites(layout) :
                         /\ maps[p[1]].srcnode[p[2]] = n2
                         /\ maps[p[1]].soffsets[p[2]] = j }) = 1
    /\ \A n \in Nodes(layout) : \A i \in LocalSites(layout) :
         /\ maps[n].srcnode[i] \in Nodes(layout)
         /\ maps[n].soffsets[i] \in LocalSites(layout)
         /\ maps[maps[n].srcnode[i]].dstnode[maps[n].soffsets[i]] = n
    /\ \A a, b \in Nodes(layout) :
         Cardinality(SitesWithSrc(a, b)) = Cardinality(SitesWithDst(b, a))

\* Every node has built its Map from an inverse pair that moves sites
\* between nodes and is not its own inverse.
C5_Witness ==
  /\ InversePair
  /\ AllMapsBuilt
  /\ numNodes(layout) >= 2
  /\ subgridVol(layout) >= 2
  /\ map_func.fwd # map_func.bwd
  /\ \E i \in LocalSites(layout) : maps[0].srcnode[i] # 0

Range(a) == { a[i] : i \in DOMAIN a }

RECURSIVE SumUpTo(_, _)
SumUpTo(a, n) == IF n = 0 THEN 0 ELSE a[n - 1] + SumUpTo(a, n - 1)

\* The unique list and its counts agree with the per-site node list of the
\* Map of node n.
UniqueListOk(n, unique, num, list) ==
  /\ \A i, j \in DOMAIN unique : unique[i] = unique[j] => i = j
  /\ n \in Range(unique)
  /\ Range(list) \subseteq Range(unique)
  /\ DOMAIN num = DOMAIN unique
  /\ \A k \in DOMAIN unique :
       num[k] = Cardinality({ i \in DOMAIN list : list[i] = unique[k] })
  /\ SumUpTo(num, Size(num)) = subgridVol(layout)

\* C6: after Map::make, srcenodes (destnodes) has no duplicate, contains
\* this node and every node of srcnode (dstnode); srcenodes_num[k]
\* (destnodes_num[k]) is the number of local sites whose srcnode (dstnode)
\* is srcenodes[k] (destnodes[k]); each count list sums to subgridVol.
C6_UniqueNodeListsAndCounts ==
  \A n \in Nodes(layout) :
    MapBuilt(n) =>
      /\ UniqueListOk(n, maps[n].srcenodes, maps[n].srcenodes_num, maps[n].srcnode)
      /\ UniqueListOk(n, maps[n].destnodes, maps[n].destnodes_num, maps[n].dstnode)

\* A built Map of a node with two local sites, none of which has this node
\* as source: this node is listed with count 0, the other node with 2.
C6_Witness ==
  \E n \in Nodes(layout) :
    /\ MapBuilt(n)
    /\ n \notin Range(maps[n].srcnode)
    /\ subgridVol(layout) = 2
    /\ Size(maps[n].srcenodes) = 2
    /\ \E k \in DOMAIN maps[n].srcenodes : maps[n].srcenodes_num[k] = 2
    /\ \E k \in DOMAIN maps[n].srcenodes :
         maps[n].srcenodes[k] = n /\ maps[n].srcenodes_num[k] = 0

\* C17: Map::make never indexes srcenodes, destnodes, srcenodes_num or
\* destnodes_num outside their sizes, whatever the map function, also when
\* the number of distinct source nodes differs from the number of distinct
\* destination nodes.
C17_IndicesWithinSizes ==
  \A n \in DOMAIN maps :
    maps[n] # NoMap => OutOfBounds(maps[n], map_indexed[n]) = {}

-----------------------------------------------------------------------------
(* Specification of the message passing routines, called as the library
   calls them: a sendRecv on dir is followed by wait(dir) before the next
   sendRecv on dir, and wait(dir) is called only for a started dir. *)

InitComm ==
  /\ isInit = TRUE
  /\ status = "running"
  /\ NO_MEM = FALSE
  /\ last_call = Call("QDP_initialize", EmptyArray, FALSE, "none", FALSE)
  /\ qmp_nodes = MaxNodes
  /\ layout = NoLayout
  /\ IdleNN
  /\ IdleSet
  /\ IdleMap
  /\ IdleComm

Started(dir) == \E p \in pending : p[1] = dir

\* At most one call of the routine fails.
OneOf(labels) == {{}} \cup { {l} : l \in labels }

NextComm ==
  \/ \E isign \in {-1, 1}, dir \in Axes, fails \in OneOf(RelativeFails) :
       sendRecvWait(isign, dir, fails)
  \/ \E isign0 \in {-1, 1}, dir \in Axes, fails \in OneOf(RelativeFails) :
       ~Started(dir) /\ sendRecv(isign0, dir, fails)
  \/ \E dir \in Axes : Started(dir) /\ wait(dir)
  \/ \E node \in 0 .. (qmp_nodes - 1), fails \in OneOf(DirectFails) :
       sendToWait(node, fails)
  \/ \E node \in 0 .. (qmp_nodes - 1), fails \in OneOf(DirectFails) :
       recvFromWait(node, fails)

SpecComm == InitComm /\ [][NextComm]_vars

\* The regions and handles of the sendRecv that is outstanding on dir.
Outstanding(dir) ==
  { request_msg[dir][0], request_msg[dir][1],
    request_mh[dir][0], request_mh[dir][1], mh_both[dir] } \ {NullHandle}

\* C9: in every sequence of sendRecvWait, sendToWait, recvFromWait and
\* sendRecv/wait pairs, no region or handle is freed twice and none is
\* waited on or freed without having been declared; while the process runs,
\* the regions and handles not yet freed are exactly those of the
\* outstanding sendRecv calls, so that when the sequence ends (nothing
\* outstanding) every declared region and handle has been freed exactly once.
C9_DeclaredFreedExactlyOnce ==
  /\ \A h \in DOMAIN qmp.objs : qmp.objs[h].frees <= 1
  /\ qmp.misuse = {}
  /\ status = "running" =>
       \A h \in DOMAIN qmp.objs :
         (qmp.objs[h].frees = 0) <=> (\E dir \in Axes : Started(dir) /\ h \in Outstanding(dir))

\* After a second sendRecv/wait pair on the same dir, with blocking calls
\* in between, everything declared has been freed once.
C9_Witness ==
  /\ status = "running"
  /\ pending = {}
  /\ last_op.op = "wait"
  /\ Len(qmp.objs) = MaxHandles
  /\ \A h \in DOMAIN qmp.objs : qmp.objs[h].frees = 1
  /\ \E dir \in Axes : mh_both[dir] = MaxHandles

\* C10 as stated: in sendRecvWait, sendRecv, sendToWait and recvFromWait,
\* when QMP_start or a declare call fails the process terminates at that
\* point and makes no QMP_wait or free call.
C10_FailureIsFatal ==
  last_op.fails # {} =>
    /\ status = "exited"
    /\ \A i \in DOMAIN last_op.calls :
         last_op.calls[i] \notin {"QMP_wait", "QMP_free_msghandle", "QMP_free_msgmem"}

-----------------------------------------------------------------------------
(* Specification of sendRecv and wait called with at most one sendRecv
   outstanding per axis and direction: a sendRecv on (dir, isign) may be
   started while one on (dir, -isign) is outstanding, and wait(dir) is
   called once for each. *)

NextCommPairs ==
  \/ \E isign0 \in {-1, 1}, dir \in Axes, fails \in OneOf(RelativeFails) :
       /\ <<dir, IF isign0 > 0 THEN 1 ELSE -1>> \notin pending
       /\ sendRecv(isign0, dir, fails)
  \/ \E dir \in Axes : Started(dir) /\ wait(dir)

SpecCommPairs == InitComm /\ [][NextCommPairs]_vars

\* C15 as stated: with one sendRecv outstanding on (m,+1) and one on (m,-1),
\* the second start does not overwrite the regions and handles of the
\* first, and the waits that follow wait on and free those of both: every
\* region or handle not yet freed is recorded in the static arrays, nothing
\* is freed twice or waited on after its free, and with nothing outstanding
\* everything declared has been freed.
C15_PerDirectionBookkeeping ==
  status = "running" =>
    /\ \A h \in DOMAIN qmp.objs :
         qmp.objs[h].frees = 0 => \E dir \in Axes : h \in Outstanding(dir)
    /\ \A h \in DOMAIN qmp.objs : qmp.objs[h].frees <= 1
    /\ qmp.misuse = {}
    /\ pending = {} => \A h \in DOMAIN qmp.objs : qmp.objs[h].frees = 1

\* The regions and handles that are not freed and that no entry of the
\* static arrays holds any more.
Unrecorded ==
  { h \in DOMAIN qmp.objs :
      qmp.objs[h].frees = 0 /\ \A dir \in Axes : h \notin Outstanding(dir) }

\* What the static arrays hold for dir.
Recorded(dir) == <<request_msg[dir], request_mh[dir], mh_both[dir]>>

\* What C15, amended, says of one step.
C15_Step ==
  /\ Unrecorded \subseteq Unrecorded'
  /\ \A dir \in Axes :
       Recorded(dir)' # Recorded(dir) =>
         /\ last_op'.op = "sendRecv"
         /\ \A h \in Outstanding(dir) :
              /\ h \notin Outstanding(dir)'
              /\ qmp.objs[h].frees = 0 => h \in Unrecorded'
  /\ last_op'.op = "wait" =>
       \E dir \in Axes :
         /\ Recorded(dir)' = Recorded(dir)
         /\ \A h \in DOMAIN qmp.objs :
              qmp'.objs[h].frees =
                qmp.objs[h].frees + (IF h \in Outstanding(dir) THEN 1 ELSE 0)

\* C15 amended: the bookkeeping is kept per axis only. A sendRecv on dir
\* replaces whatever the arrays held for dir, so the regions and handles of
\* a sendRecv still outstanding on dir (in either direction) are recorded
\* nowhere from then on and are never freed; wait(dir) frees what the
\* arrays hold for dir, once more at every call, and nothing else.
C15_PerAxisBookkeeping == [][C15_Step]_vars

\* sendRecv on (0,+1) and on (0,-1), then wait(0) twice: the five regions
\* and handles of the first were never freed, those of the second were
\* freed twice, and the second wait waited on a freed handle.
C15_Witness ==
  /\ status = "running"
  /\ pending = {}
  /\ last_op.op = "wait"
  /\ Unrecorded = 1 .. 5
  /\ \A h \in 6 .. 10 : qmp.objs[h].frees = 2
  /\ mh_both[0] = 10
  /\ <<"QMP_wait", 10>> \in qmp.misuse

=============================================================================
